---- MODULE Spec2Model ----
(***************************************************************************)
(* NCBI Gene MCP client: the bridge to the NCBI Entrez E-utilities.        *)
(*                                                                         *)
(* The model covers the two bridges of the repository:                     *)
(*   - NCBIBridge of src/ncbi_gene_mcp_client/bridge.py: b1 is built from  *)
(*     a caller's Config, b2 from the default Config, as MCPServer and     *)
(*     NCBIGeneMCPClientBridge build theirs;                               *)
(*   - NCBIBridge of src/api/app.py (the module-level client "api" of the  *)
(*     standalone web application).                                        *)
(* A run is one process: "pkg" holds the one bridge b1, as each front-end  *)
(* of the package does; "two" is a caller of the package that builds the   *)
(* two bridges b1 and b2 and fetches genes through both; "api" is          *)
(* api/app.py.  The MCP server of mcp_server.py is the process "mcp" of    *)
(* the second specification, McpSpec: it reads requests line by line and   *)
(* calls the operations of its bridge b1.  ConfigSpec is a caller of the  *)
(* wrapper NCBIGeneMCPClientBridge of main.py ("wrap") or of a bridge      *)
(* built from a Config of its own ("cfg"); WebSpec is a web front-end      *)
(* with several requests in flight on its one client.                      *)
(* Time is counted in ticks of the clock read by time.time(); a bridge     *)
(* is used serially, one top-level call at a time (WebSpec checks that    *)
(* the web handlers do so).  The upstream service                          *)
(* is the environment: it answers each GET with a timeout, a status, a     *)
(* body that is not JSON, or a JSON document.                              *)
(***************************************************************************)
EXTENDS Integers, Sequences, FiniteSets, TLC

(***************************************************************************)
(* The fields of the model's records; a record lists its fields in this    *)
(* order.                                                                  *)
(***************************************************************************)
Fields ==
    [api_key |-> "api_key", arg |-> "arg", arguments |-> "arguments", asked |-> "asked",
     body |-> "body", code |-> "code", content |-> "content",
     count |-> "count", data |-> "data", db |-> "db", detail |-> "detail",
     doc |-> "doc", elapsed |-> "elapsed", email |-> "email", endpoint |-> "endpoint",
     error |-> "error", esearchresult |-> "esearchresult", exc |-> "exc",
     fetch |-> "fetch", first |-> "first", found |-> "found",
     gene_id |-> "gene_id", genes |-> "genes", id |-> "id",
     idlist |-> "idlist", ids |-> "ids", inst |-> "inst", json |-> "json",
     jsonrpc |-> "jsonrpc", key |-> "key", kind |-> "kind", l |-> "l",
     left |-> "left",
     make_request |-> "make_request", max_results |-> "max_results",
     message |-> "message", method |-> "method", msg |-> "msg", n |-> "n",
     name |-> "name", none |-> "none", op |-> "op", organism |-> "organism",
     other_aliases |-> "other_aliases", otheraliases |-> "otheraliases",
     own |-> "own", params |-> "params", pc |-> "pc", proc |-> "proc",
     protein_id |-> "protein_id", protocolVersion |-> "protocolVersion",
     query |-> "query", query_translation |-> "query_translation",
     querytranslation |-> "querytranslation", rate_limit |-> "rate_limit",
     result |-> "result", retmax |-> "retmax", retmode |-> "retmode",
     returned |-> "returned",
     s |-> "s", scientificname |-> "scientificname", search |-> "search",
     serverInfo |-> "serverInfo", since |-> "since", status |-> "status",
     symbol |-> "symbol", t |-> "t", t0 |-> "t0", term |-> "term", text |-> "text",
     timeout |-> "timeout", title |-> "title", tool |-> "tool", tools |-> "tools",
     type |-> "type", uid |-> "uid",
     value |-> "value", version |-> "version", waited |-> "waited", wake |-> "wake"]

(***************************************************************************)
(* Bounds of the model.                                                    *)
(***************************************************************************)
MaxDelay == 2          \* request_delay of a caller's Config ranges over 0..MaxDelay
MaxTime == 2           \* idle time passes and calls start up to ClockStart + MaxTime
MaxOvershoot == 1      \* time.sleep(d) suspends for d .. d + MaxOvershoot ticks
ShortLen == 2          \* every id list of at most ShortLen ids is an upstream answer
MaxUpstreamIds == 11   \* longest id list the upstream answers a search with
WebMaxTime == 6        \* web requests are in flight up to ClockStart + WebMaxTime

(***************************************************************************)
(* Program constants.                                                      *)
(***************************************************************************)
DefaultDelay == 2      \* Config.request_delay = 0.34 s, in ticks of 0.17 s
SymbolRetmax == 10     \* bridge.py: search_genes(query, max_results=10)
ApiSymbolRetmax == 50  \* api/app.py: search_genes(query, max_results=50)
ApiFetchCap == 10      \* api/app.py: search_result.ids[:10]
DefaultMaxResults == 20
DefaultTimeout == 30   \* Config.timeout = 30.0 s

Instances == {"b1", "b2", "api"}
Programs == {"pkg", "two", "api"}

\* which source file an instance is an object of
Impl(b) == IF b = "api" THEN "api" ELSE "pkg"

\* the bridges of a process
InstancesOf(p) ==
    IF p = "api" THEN {"api"} ELSE IF p = "two" THEN {"b1", "b2"} ELSE {"b1"}

\* web_app.py: client = NCBIGeneMCPClientBridge(); api/app.py: client = NCBIBridge()
WebClient(p) == IF p = "api" THEN "api" ELSE "b1"

\* the operations a process calls
CallsOf(p) ==
    IF p = "two" THEN {"fetch_gene_info"}
    ELSE IF p = "api" THEN {"search_genes", "fetch_gene_info", "search_by_gene_symbol",
                            "get_gene_info_api", "search_genes_api", "search_by_symbol_api"}
    ELSE {"search_genes", "fetch_gene_info", "fetch_protein_info",
          "search_by_gene_symbol", "get_gene_info_api", "search_genes_api",
          "search_by_symbol_api"}

\* the handlers of the web front-end (web_app.py, api/app.py)
WebHandlers == {"get_gene_info_api", "search_genes_api", "search_by_symbol_api"}

ClockStart == MaxDelay + MaxOvershoot + 2   \* time.time() counts from the epoch: far above any delay

Min(a, b) == IF a < b THEN a ELSE b
Max(a, b) == IF a < b THEN b ELSE a

(***************************************************************************)
(* JSON values.  An object is a function from field names to values, a     *)
(* string Str(s), a number Num(n); a missing field is a name outside the   *)
(* DOMAIN.                                                                 *)
(***************************************************************************)
Str(s) == [s |-> s, t |-> "str"]
Num(n) == [n |-> n, t |-> "num"]
IsStr(v) == DOMAIN v = {"t", "s"} /\ v.t = "str"
EmptyObject == << >>

\* dict.get(key, default)
Get(obj, key, default) == IF key \in DOMAIN obj THEN obj[key] ELSE default

(***************************************************************************)
(* Results of an operation: a returned value or a raised exception.        *)
(***************************************************************************)
Return(v) == [kind |-> "return", value |-> v]
Raise(e) == [exc |-> e, kind |-> "raise"]
Exc(type, msg) == [msg |-> msg, type |-> type]
None == [none |-> TRUE]

List(l) == [l |-> l, t |-> "list"]
IsList(v) == DOMAIN v = {"t", "l"} /\ v.t = "list"
\* JSON null: Python's None inside a decoded document
JNull == [t |-> "null"]
\* a JSON object (a Python dict): the only values that have .get
IsObject(v) == "t" \notin DOMAIN v

(***************************************************************************)
(* Arguments of the operations.                                            *)
(***************************************************************************)
GeneIds == {"672", "675"}
BlankArgs == {"", " "}
\* a gene the callers fetch by id only: no search lists it
DetailId == "7157"
ArgIds == GeneIds \cup BlankArgs \cup {"100", DetailId}
Queries == {"BRCA1[gene]"} \cup BlankArgs
Symbols == {"BRCA1", "TP53"} \cup BlankArgs
\* the (symbol, organism) pairs search_by_gene_symbol is called with
SymbolArgs ==
    { <<s, None>> : s \in Symbols } \cup { <<"BRCA1", Str("human")>>, <<"BRCA1", Str("Human")>> }
MaxResultsValues == {1, DefaultMaxResults}
\* the form fields the web front-end is posted: query, symbol
WebQueries == {"BRCA1[gene]"} \cup BlankArgs
WebSymbols == {"BRCA1"} \cup BlankArgs

\* str.strip() and str.upper() on the strings of the model
strip(s) == IF s = " " THEN "" ELSE s
upper(s) == IF s = "brca1" THEN "BRCA1" ELSE s

\* the letters are left as they are
lower_unchanged(s) == s

\* str.lower() on the strings of the model
lower(s) == IF s = "Human" THEN "human" ELSE s

(***************************************************************************)
(* The upstream service.  Id 672 may be answered with any of the record    *)
(* shapes below, id 675 with its one record, id 100 is stale: the search   *)
(* index still lists it and the summary endpoint has no record of it.      *)
(* Every request may also fail in transport or be answered with a          *)
(* document that lacks the record.                                         *)
(***************************************************************************)
StaleId == "100"

\* values of a record's organism field
OrganismValues ==
    { [scientificname |-> Str("Homo sapiens")],
      EmptyObject,                          \* an object without scientificname
      [scientificname |-> JNull],           \* a scientificname that is no string
      Str("Homo sapiens"),
      Num(9606), JNull, List(<< >>) }

\* values of a record's otheraliases field
AliasValues ==
    { Str("TP53, p53, TRP53"), Str("TP53,p53"), Str("p53 , TRP53"), Str(""),
      List(<<"TP53", "p53">>), List(<< >>), JNull }

\* the records of the gene fetched by id only: one per organism value and one
\* per otheraliases value
DetailRecords ==
    { [name |-> Str("TP53"), organism |-> o] : o \in OrganismValues }
      \cup { [name |-> Str("TP53"), otheraliases |-> a] : a \in AliasValues }

RecordsUnder(id) ==
    IF id = "672"
    THEN { EmptyObject,                      \* a record with no fields
           [name |-> Str("BRCA1")],
           [name |-> Str("brca1")],
           [uid |-> Str("672")],             \* a record without a name
           [name |-> Num(672)],              \* a name that is not a string
           Str("cannot get document summary") }  \* not an object
    ELSE IF id = "675" THEN { [name |-> Str("TP53")] }
    ELSE IF id = DetailId THEN DetailRecords
    ELSE {}

OtherId(id) == IF id = "672" THEN "675" ELSE "672"

\* the documents the summary endpoint may answer a request for id with
SummaryDocs(id) ==
    { [result |-> (id :> r)] : r \in RecordsUnder(id) }
      \cup { [result |-> (OtherId(id) :> [name |-> Str("TP53")])],  \* a record under another id only
             [result |-> EmptyObject],
             EmptyObject,                    \* no "result" field
             List(<< >>) }                   \* a document that is not an object

RECURSIVE Repeat(_, _)
Repeat(x, n) == IF n = 0 THEN << >> ELSE <<x>> \o Repeat(x, n - 1)

\* the id lists of a search answer: every list of at most ShortLen different
\* gene ids for a plain gene term (at most one id for any other term) and, for
\* a search of the symbol TP53, also lists of up to MaxUpstreamIds stale ids
ListsUpTo(k) ==
    { l \in UNION { [1..j -> GeneIds] : j \in 0..k } :
        \A i, j \in DOMAIN l : l[i] = l[j] => i = j }
ShortLists == ListsUpTo(ShortLen)
LongLists == { Repeat(StaleId, k) : k \in (ShortLen + 1)..MaxUpstreamIds }
IdLists(term) ==
    IF term \in {"TP53[gene]", "TP53[gene symbol]"} THEN ShortLists \cup LongLists
    ELSE IF term \in {"BRCA1[gene]", "BRCA1[gene symbol]"}
    THEN ShortLists \cup {<<"675", "675">>}      \* and a list that repeats an id
    ELSE ListsUpTo(1)

ESearchResults(term) ==
    { EmptyObject,
      [count |-> Str("2")],                                   \* no id list
      [count |-> Str("2"), idlist |-> Str("672")],            \* an id list that is no list
      [count |-> Str("many"), idlist |-> List(<<"672">>)],    \* a count that is no number
      [count |-> Num(2), idlist |-> List(<<"672">>)],
      [count |-> Str("0"), idlist |-> List(<<"672">>)] }
      \cup { [idlist |-> List(l)] : l \in IdLists(term) }
      \cup { [count |-> Str("2"), idlist |-> List(l),
              querytranslation |-> Str("BRCA1[Gene Name]")] : l \in ListsUpTo(1) }

\* the documents the search endpoint may answer a search for term with
SearchDocs(term) ==
    { [esearchresult |-> e] : e \in ESearchResults(term) }
      \cup { EmptyObject, List(<< >>) }

StatusCodes == {200, 201, 404, 500}

\* the body of an HTTP response: a JSON document, or text that is not JSON
NotJson == [json |-> FALSE]
Json(d) == [doc |-> d, json |-> TRUE]

\* what one GET may end in: no response within the timeout, another failure
\* of the transport, or a response
Answers(docs) ==
    { [kind |-> "timeout"],
      [kind |-> "failure"] }                \* an exception whose str() is empty
      \cup { [body |-> b, code |-> 200, kind |-> "response"] :
                b \in {NotJson} \cup { Json(d) : d \in docs } }
      \cup { [body |-> b, code |-> c, kind |-> "response"] :
                c \in StatusCodes \ {200}, b \in {NotJson, Json(EmptyObject)} }

(***************************************************************************)
(* The bridge's pure steps.                                                *)
(***************************************************************************)

\* Python truth value: "not v" holds of None and of every empty value
Falsy(v) ==
    v = None \/ v = JNull \/ v = EmptyObject \/ v = Str("") \/ v = List(<< >>) \/ v = Num(0)

\* int(v): a number, or a string of digits
CanInt(v) == v \in {Num(0), Num(2), Str("0"), Str("2")}
IntOf(v) == IF v \in {Num(0), Str("0")} THEN 0 ELSE 2

\* the comparison the other way round
must_wait_inverted(delay, time_since_last) == time_since_last > delay

\* _rate_limit: "if time_since_last < self.config.request_delay"
must_wait(delay, time_since_last) == time_since_last < delay

\* a sleep that is one tick short
sleep_time_short(delay, time_since_last) == delay - time_since_last - 1

\* _rate_limit: the argument of time.sleep
sleep_time(delay, time_since_last) == delay - time_since_last

\* the status is not looked at
make_request_result_any_status(answer) ==
    IF answer.kind = "timeout" THEN Raise(Exc("Timeout", "timed out"))
    ELSE IF answer.kind = "failure" THEN Raise(Exc("MemoryError", ""))
    ELSE IF answer.kind = "invalid_timeout" THEN Raise(Exc("ValueError", "Invalid timeout"))
    ELSE IF ~answer.body.json THEN Raise(Exc("JSONDecodeError", "invalid JSON"))
    ELSE Return(answer.body.doc)

\* _make_request after the GET: raise on a status other than 200, else decode the body
make_request_result(answer) ==
    IF answer.kind = "timeout" THEN Raise(Exc("Timeout", "timed out"))
    ELSE IF answer.kind = "failure" THEN Raise(Exc("MemoryError", ""))
    ELSE IF answer.kind = "invalid_timeout" THEN Raise(Exc("ValueError", "Invalid timeout"))
    ELSE IF answer.code # 200
    THEN Raise([msg |-> "NCBI API request failed", status |-> answer.code, type |-> "Exception"])
    ELSE IF ~answer.body.json THEN Raise(Exc("JSONDecodeError", "invalid JSON"))
    ELSE Return(answer.body.doc)

\* search_genes after _make_request: build the SearchResult
search_genes_result(response) ==
    IF ~IsObject(response) THEN Raise(Exc("AttributeError", "get"))
    ELSE LET esearch_result == Get(response, "esearchresult", EmptyObject)
             count == Get(esearch_result, "count", Num(0))
             idlist == Get(esearch_result, "idlist", List(<< >>))
             qt == Get(esearch_result, "querytranslation", None)
         IN  IF ~CanInt(count) THEN Raise(Exc("ValueError", "invalid literal for int()"))
             ELSE IF ~IsList(idlist) THEN Raise(Exc("ValidationError", "ids"))
             ELSE Return([count |-> IntOf(count), ids |-> idlist.l, query_translation |-> qt])

\* the default of the name field: "" in bridge.py, "Unknown" in api/app.py
default_name(impl) == IF impl = "api" THEN Str("Unknown") ELSE Str("")

\* "if not gene_data" / "if not protein_data": the record counts as missing
no_data(record) == Falsy(record)

(***************************************************************************)
(* Text.  The strings that are split are spelled as sequences of tokens: a *)
(* word, a comma or a blank each.                                          *)
(***************************************************************************)
Tokens(s) ==
    CASE s = "TP53, p53, TRP53" -> <<"TP53", ",", " ", "p53", ",", " ", "TRP53">>
      [] s = "TP53,p53" -> <<"TP53", ",", "p53">>
      [] s = "p53 , TRP53" -> <<"p53", " ", ",", " ", "TRP53">>
      [] OTHER -> << >>

\* the text of a token sequence
RECURSIVE Text(_)
Text(toks) == IF toks = << >> THEN "" ELSE Head(toks) \o Text(Tail(toks))

\* whether sep starts at position i of toks
SepAt(toks, sep, i) ==
    /\ i + Len(sep) - 1 <= Len(toks)
    /\ \A k \in 1..Len(sep) : toks[i + k - 1] = sep[k]

\* str.split(sep): the pieces between the occurrences of sep, left to right
RECURSIVE split(_, _)
split(toks, sep) ==
    LET at == { i \in 1..Len(toks) : SepAt(toks, sep, i) }
    IN  IF at = {} THEN <<toks>>
        ELSE LET i == CHOOSE j \in at : \A k \in at : j <= k
             IN  <<SubSeq(toks, 1, i - 1)>> \o split(SubSeq(toks, i + Len(sep), Len(toks)), sep)

\* str.strip() of a piece: blanks at both ends removed
RECURSIVE strip_piece(_)
strip_piece(toks) ==
    IF toks = << >> THEN toks
    ELSE IF Head(toks) = " " THEN strip_piece(Tail(toks))
    ELSE IF toks[Len(toks)] = " " THEN strip_piece(SubSeq(toks, 1, Len(toks) - 1))
    ELSE toks

\* str(v) of a value that is no dict
str_of(v) ==
    CASE IsStr(v) -> v.s
      [] v = Num(9606) -> "9606"
      [] v = JNull -> "None"
      [] OTHER -> "[]"

\* "Unknown" is not the default
organism_name_no_default(organism) ==
    IF IsObject(organism) THEN Get(organism, "scientificname", Str(""))
    ELSE Str(str_of(organism))

\* fetch_gene_info: organism.get("scientificname", "Unknown") if
\* isinstance(organism, dict) else str(organism)
organism_name(organism) ==
    IF IsObject(organism) THEN Get(organism, "scientificname", Str("Unknown"))
    ELSE Str(str_of(organism))

\* the texts of the pieces, each stripped when trim holds
RECURSIVE Texts(_, _)
Texts(pieces, trim) ==
    IF pieces = << >> THEN << >>
    ELSE <<Text(IF trim THEN strip_piece(Head(pieces)) ELSE Head(pieces))>>
            \o Texts(Tail(pieces), trim)

\* the pieces are not stripped
split_aliases_untrimmed(impl, aliases) ==
    Texts(split(Tokens(aliases), <<",">>), FALSE)

\* the list a comma-joined alias string becomes: bridge.py splits on "," and
\* strips each piece, api/app.py splits on ", "
split_aliases(impl, aliases) ==
    IF impl = "api" THEN Texts(split(Tokens(aliases), <<",", " ">>), FALSE)
    ELSE Texts(split(Tokens(aliases), <<",">>), TRUE)

\* fetch_gene_info: the other_aliases it passes to GeneInfo
other_aliases_result(impl, gene_data) ==
    IF "otheraliases" \notin DOMAIN gene_data
    THEN Return(IF impl = "api" THEN List(<< >>) ELSE None)
    ELSE LET aliases == gene_data.otheraliases
         IN  IF impl = "api"
             THEN IF Falsy(aliases) THEN Return(List(<< >>))
                  ELSE IF IsStr(aliases) THEN Return(List(split_aliases(impl, aliases.s)))
                  ELSE Raise(Exc("AttributeError", "split"))
             ELSE LET other_aliases == IF IsStr(aliases) THEN split_aliases(impl, aliases.s)
                                       ELSE IF IsList(aliases) THEN aliases.l
                                       ELSE << >>
                  IN  Return(IF other_aliases = << >> THEN None ELSE List(other_aliases))

\* fetch_gene_info after _make_request: look the record up and build the GeneInfo
fetch_gene_info_result(impl, response, gene_id) ==
    IF ~IsObject(response) THEN Raise(Exc("AttributeError", "get"))
    ELSE LET result == Get(response, "result", EmptyObject)
             gene_data == Get(result, gene_id, None)
         IN  IF no_data(gene_data)
             THEN Raise(Exc("Exception", "No data found for gene ID"))
             ELSE IF ~IsObject(gene_data) THEN Raise(Exc("AttributeError", "get"))
             ELSE LET organism == organism_name(Get(gene_data, "organism", EmptyObject))
                      other_aliases == other_aliases_result(impl, gene_data)
                      name == Get(gene_data, "name", default_name(impl))
                  IN  IF other_aliases.kind = "raise" THEN other_aliases
                      ELSE IF ~IsStr(name) THEN Raise(Exc("ValidationError", "name"))
                      ELSE IF ~IsStr(organism) THEN Raise(Exc("ValidationError", "organism"))
                      ELSE Return([gene_id |-> gene_id, name |-> name.s,
                                   organism |-> organism.s,
                                   other_aliases |-> other_aliases.value])

\* fetch_protein_info after _make_request
fetch_protein_info_result(response, protein_id) ==
    IF ~IsObject(response) THEN Raise(Exc("AttributeError", "get"))
    ELSE LET result == Get(response, "result", EmptyObject)
             protein_data == Get(result, protein_id, None)
         IN  IF no_data(protein_data)
             THEN Raise(Exc("Exception", "No data found for protein ID"))
             ELSE IF ~IsObject(protein_data) THEN Raise(Exc("AttributeError", "get"))
             ELSE LET title == Get(protein_data, "title", Str(""))
                  IN  IF ~IsStr(title) THEN Raise(Exc("ValidationError", "title"))
                      ELSE Return([protein_id |-> protein_id, title |-> title.s])

\* search_by_gene_symbol: the search term
build_query(impl, symbol, organism) ==
    LET field == IF impl = "api" THEN "[gene symbol]" ELSE "[gene]"
        org == IF organism = None THEN ""
               ELSE IF impl = "api" /\ lower(organism.s) = "human" THEN "Homo sapiens"
               ELSE organism.s
    IN  IF Falsy(organism) THEN symbol \o field
        ELSE symbol \o field \o " AND " \o org \o "[organism]"

\* search_by_gene_symbol: retmax of its search
symbol_retmax(impl) == IF impl = "api" THEN ApiSymbolRetmax ELSE SymbolRetmax

\* search_by_gene_symbol: the ids it fetches ("search_result.ids" in bridge.py,
\* "search_result.ids[:10]" in api/app.py)
fetch_ids(impl, l) ==
    IF impl = "api" THEN SubSeq(l, 1, Min(ApiFetchCap, Len(l))) ELSE l

\* search_by_gene_symbol: whether a fetched gene is appended (api/app.py keeps
\* the genes whose name is the symbol, ignoring case)
keeps(impl, gene_info, symbol) ==
    impl = "api" => upper(gene_info.name) = upper(symbol)

\* the upstream requests
SearchReq(op, term, retmax) ==
    [db |-> "gene", endpoint |-> "esearch", key |-> term, op |-> op, retmax |-> retmax]
SummaryReq(op, db, id) ==
    [db |-> db, endpoint |-> "esummary", key |-> id, op |-> op, retmax |-> 0]

\* what the upstream may answer a request with
AnswersTo(r) ==
    IF r.endpoint = "esearch" THEN Answers(SearchDocs(r.key)) ELSE Answers(SummaryDocs(r.key))

\* dict.update: the entries of e replace and extend those of d
update(d, e) == [k \in DOMAIN d \cup DOMAIN e |-> IF k \in DOMAIN e THEN e[k] ELSE d[k]]

\* the params an operation passes to _make_request
caller_params(r) ==
    IF r.endpoint = "esearch"
    THEN [db |-> Str(r.db), retmax |-> Num(r.retmax), term |-> Str(r.key)]
    ELSE [db |-> Str(r.db), id |-> Str(r.key)]

\* the credentials are sent whenever the field is not None
common_params_if_not_none(impl, cfg) ==
    LET base == [retmode |-> Str("json"), tool |-> Str("ncbi_gene_mcp_client")]
        email == IF impl = "pkg" /\ cfg.email # None THEN [email |-> cfg.email] ELSE << >>
        api_key == IF impl = "pkg" /\ cfg.api_key # None THEN [api_key |-> cfg.api_key]
                   ELSE << >>
    IN  update(update(base, email), api_key)

\* _make_request: common_params. bridge.py adds email and api_key under
\* "if self.config.email:" and "if self.config.api_key:"; api/app.py has neither
common_params(impl, cfg) ==
    LET base == [retmode |-> Str("json"), tool |-> Str("ncbi_gene_mcp_client")]
        email == IF impl = "pkg" /\ ~Falsy(cfg.email) THEN [email |-> cfg.email] ELSE << >>
        api_key == IF impl = "pkg" /\ ~Falsy(cfg.api_key) THEN [api_key |-> cfg.api_key]
                   ELSE << >>
    IN  update(update(base, email), api_key)

\* _make_request: "params.update(common_params)", the params of the GET
request_params(impl, cfg, r) == update(caller_params(r), common_params(impl, cfg))

\* session.get(url, params=params, timeout=self.config.timeout): a timeout that
\* is not positive is refused before anything is sent
get_outcomes(timeout, r) ==
    IF timeout <= 0 THEN { [kind |-> "invalid_timeout"] } ELSE AnswersTo(r)

\* the result of the bridge operation that made request r, given the GET's answer
operation_result(impl, r, answer) ==
    LET got == make_request_result(answer)
    IN  IF got.kind = "raise" THEN got
        ELSE CASE r.op = "search_genes" -> search_genes_result(got.value)
               [] r.op = "fetch_gene_info" -> fetch_gene_info_result(impl, got.value, r.key)
               [] OTHER -> fetch_protein_info_result(got.value, r.key)

(***************************************************************************)
(* State.                                                                  *)
(***************************************************************************)
VARIABLES
    now,                \* the clock: what time.time() returns
    program,            \* the running program: the package ("pkg") or api/app.py ("api")
    request_delay,      \* per instance: config.request_delay (self.request_delay in api/app.py)
    last_request_time,  \* per instance: self.last_request_time
    pc,                 \* position of the thread of control
    call,               \* the top-level call in progress, or None
    req,                \* the upstream request of the bridge operation in progress, or None
    ids,                \* search_by_gene_symbol: the ids it iterates over
    idx,                \* search_by_gene_symbol: position in ids
    genes,              \* search_by_gene_symbol: the list it builds
    outcome,            \* what the finished top-level call returned or raised, or None
    acq,                \* history: the latest _rate_limit acquisition
    get_at,             \* history: per instance, the start of its latest GET (-1: none)
    gaps,               \* history: the latest GET's distance to the GETs before it
    n,                  \* history: counters of the call in progress
    search_res,         \* history: how the search of search_by_gene_symbol ended
    fetched,            \* history: the entities fetch_gene_info returned to search_by_gene_symbol
    answer,             \* history: the upstream's answer to the GET of a directly called operation
    server,             \* MCPServer.run: "off" (no MCP server), "reading", "calling" (inside a
                        \* tool's bridge call), "ended" (end of input) or "crashed"
    request_id,         \* MCPServer: self.request_id
    request,            \* MCPServer.run: the request read from the latest input line, or None
    responses,          \* MCPServer: the lines written to stdout for the latest input line
    config,             \* per instance: the other fields of its Config (api_key, email, timeout)
    sent,               \* history: the params of the latest GET of the call in progress, or None
    wrapper,            \* NCBIGeneMCPClientBridge: the arguments of its constructor, or None
    wcall,              \* NCBIGeneMCPClientBridge: the call of the wrapper in progress, or None
    tasks               \* web front-end: per request in flight, the position of its handler

mcp_vars == <<server, request_id, request, responses>>

vars == <<now, program, request_delay, last_request_time, pc, call, req, ids, idx,
          genes, outcome, acq, get_at, gaps, n, search_res, fetched, answer,
          server, request_id, request, responses, config, sent, wrapper, wcall, tasks>>

\* the web requests that can be in flight at once
WebRequests == {"r1", "r2"}

\* no request is in flight
NoTasks == [t \in WebRequests |-> [left |-> 0, op |-> "none", pc |-> "idle", wake |-> 0]]

\* Config(): the defaults of the fields
DefaultConfig == [api_key |-> None, email |-> None, timeout |-> DefaultTimeout]

\* distances are recorded up to this value: it is above every request_delay
FarApart == Max(MaxDelay, DefaultDelay) + 1

NoCounts == [fetch |-> 0, make_request |-> 0, rate_limit |-> 0, search |-> 0]

Init ==
    /\ now = ClockStart
    /\ program \in Programs
    /\ request_delay \in { [b \in Instances |-> IF b = "b1" THEN d ELSE DefaultDelay] :
                              d \in 0..MaxDelay }
    /\ last_request_time = [b \in Instances |-> 0]
    /\ pc = "idle"
    /\ call = None
    /\ req = None
    /\ ids = << >>
    /\ idx = 0
    /\ genes = << >>
    /\ outcome = None
    /\ acq = None
    /\ get_at = [b \in Instances |-> -1]
    /\ gaps = None
    /\ n = NoCounts
    /\ search_res = None
    /\ fetched = << >>
    /\ answer = None
    /\ server = "off"
    /\ request_id = Num(0)
    /\ request = None
    /\ responses = << >>
    /\ config = [b \in Instances |-> DefaultConfig]
    /\ sent = None
    /\ wrapper = None
    /\ wcall = None
    /\ tasks = NoTasks

(***************************************************************************)
(* Time passes between two calls.                                          *)
(***************************************************************************)
Tick ==
    /\ pc = "idle"
    /\ now < ClockStart + MaxTime
    /\ now' = now + 1
    /\ UNCHANGED <<program, request_delay, last_request_time, pc, call, req, ids, idx,
                   genes, outcome, acq, get_at, gaps, n, search_res, fetched, answer,
                   config, sent>>
    /\ UNCHANGED mcp_vars
    /\ UNCHANGED <<wrapper, wcall, tasks>>

(***************************************************************************)
(* A front-end calls an operation: the operation builds its params and     *)
(* calls _make_request.                                                    *)
(***************************************************************************)
Begin(op, b, arg, organism, r) ==
    /\ pc = "idle"
    /\ b \in InstancesOf(program)
    /\ op \in CallsOf(program)
    /\ now <= ClockStart + MaxTime
    /\ call' = [arg |-> arg, inst |-> b, op |-> op, organism |-> organism,
                t0 |-> last_request_time[b]]
    /\ req' = r
    /\ pc' = "rate_limit"
    /\ n' = [NoCounts EXCEPT !.make_request = 1]
    /\ ids' = << >>
    /\ idx' = 0
    /\ genes' = << >>
    /\ outcome' = None
    /\ search_res' = None
    /\ fetched' = << >>
    /\ answer' = None
    /\ sent' = None
    /\ UNCHANGED <<now, program, request_delay, last_request_time, acq, get_at, gaps,
                   config>>

search_genes(b, query, max_results) ==
    /\ Begin("search_genes", b, query, None, SearchReq("search_genes", query, max_results))
    /\ UNCHANGED mcp_vars
    /\ UNCHANGED <<wrapper, wcall, tasks>>

fetch_gene_info(b, gene_id) ==
    /\ Begin("fetch_gene_info", b, gene_id, None,
             SummaryReq("fetch_gene_info", "gene", gene_id))
    /\ UNCHANGED mcp_vars
    /\ UNCHANGED <<wrapper, wcall, tasks>>

fetch_protein_info(b, protein_id) ==
    /\ Begin("fetch_protein_info", b, protein_id, None,
             SummaryReq("fetch_protein_info", "protein", protein_id))
    /\ UNCHANGED mcp_vars
    /\ UNCHANGED <<wrapper, wcall, tasks>>

search_by_gene_symbol(b, symbol, organism) ==
    /\ Begin("search_by_gene_symbol", b, symbol, organism,
             SearchReq("search_genes", build_query(Impl(b), symbol, organism),
                       symbol_retmax(Impl(b))))
    /\ UNCHANGED mcp_vars
    /\ UNCHANGED <<wrapper, wcall, tasks>>

\* the web handler GET /api/gene/{gene_id}: client.fetch_gene_info(gene_id)
get_gene_info_api(gene_id) ==
    /\ Begin("get_gene_info_api", WebClient(program), gene_id, None,
             SummaryReq("fetch_gene_info", "gene", gene_id))
    /\ UNCHANGED mcp_vars
    /\ UNCHANGED <<wrapper, wcall, tasks>>

\* the web handlers: "except Exception as e" around the whole body.
\* HTTPException is a subclass of Exception
handler_catches(exc) == TRUE

\* web_app.py: "if not query.strip(): raise HTTPException(status_code=400, ...)"
\* as the first statement of the try block; api/app.py has no such check
rejects_blank(p, value) == p # "api" /\ strip(value) = ""

\* the response to a request whose handler raised HTTPException(400, detail)
\* inside its try block
blank_response(detail) ==
    LET raised == [msg |-> detail, status |-> 400, type |-> "HTTPException"]
    IN  IF handler_catches(raised)
        THEN [detail |-> raised, kind |-> "response", status |-> 500]
        ELSE [detail |-> raised, kind |-> "response", status |-> raised.status]

\* a web handler that raised before calling the bridge
Reject(op, b, arg, detail) ==
    /\ pc = "idle"
    /\ b \in InstancesOf(program)
    /\ op \in CallsOf(program)
    /\ now <= ClockStart + MaxTime
    /\ call' = [arg |-> arg, inst |-> b, op |-> op, organism |-> None,
                t0 |-> last_request_time[b]]
    /\ pc' = "done"
    /\ outcome' = blank_response(detail)
    /\ req' = None
    /\ n' = NoCounts
    /\ ids' = << >>
    /\ idx' = 0
    /\ genes' = << >>
    /\ search_res' = None
    /\ fetched' = << >>
    /\ answer' = None
    /\ sent' = None
    /\ UNCHANGED <<now, program, request_delay, last_request_time, acq, get_at, gaps,
                   config>>

\* the web handler POST /api/search/genes
search_genes_api(query, max_results) ==
    /\ IF rejects_blank(program, query)
       THEN Reject("search_genes_api", WebClient(program), query, "Query cannot be empty")
       ELSE Begin("search_genes_api", WebClient(program), query, None,
                  SearchReq("search_genes", query, max_results))
    /\ UNCHANGED mcp_vars
    /\ UNCHANGED <<wrapper, wcall, tasks>>

\* the web handler POST /api/search/symbol
search_by_symbol_api(symbol, organism) ==
    /\ IF rejects_blank(program, symbol)
       THEN Reject("search_by_symbol_api", WebClient(program), symbol,
                   "Gene symbol cannot be empty")
       ELSE Begin("search_by_symbol_api", WebClient(program), symbol, organism,
                  SearchReq("search_genes",
                            build_query(Impl(WebClient(program)), symbol, organism),
                            symbol_retmax(Impl(WebClient(program)))))
    /\ UNCHANGED mcp_vars
    /\ UNCHANGED <<wrapper, wcall, tasks>>

(***************************************************************************)
(* _rate_limit, called first thing by _make_request.                       *)
(***************************************************************************)

\* the timestamp is left as it was
stamp_kept(time, old) == old

\* the time since the last request is stored instead of the time
stamp_elapsed(time, old) == time - old

\* _rate_limit: "self.last_request_time = time.time()"
stamp(time, old) == time

_rate_limit ==
    /\ pc = "rate_limit"
    /\ \E over \in 0..MaxOvershoot :
         LET b == call.inst
             current_time == now
             time_since_last == current_time - last_request_time[b]
             waits == must_wait(request_delay[b], time_since_last)
             asked == sleep_time(request_delay[b], time_since_last)
             \* time.sleep suspends for at least the time asked for
             woke == IF waits THEN current_time + Max(asked, 0) + over ELSE current_time
             stamped == stamp(woke, last_request_time[b])
         IN  /\ waits \/ over = 0
             /\ now' = woke
             /\ last_request_time' = [last_request_time EXCEPT ![b] = stamped]
             /\ acq' = [asked |-> IF waits THEN asked ELSE 0,
                        elapsed |-> Min(woke - last_request_time[b], FarApart),
                        first |-> last_request_time[b] = 0,
                        inst |-> b,
                        returned |-> woke,
                        since |-> Min(time_since_last, FarApart),
                        waited |-> waits]
             /\ n' = [n EXCEPT !.rate_limit = @ + 1]
             /\ pc' = "get"
    /\ UNCHANGED <<program, request_delay, call, req, ids, idx, genes, outcome,
                   get_at, gaps, search_res, fetched, answer, config, sent>>
    /\ UNCHANGED mcp_vars
    /\ UNCHANGED <<wrapper, wcall, tasks>>

(***************************************************************************)
(* The GET of _make_request and the rest of the bridge operation that      *)
(* called it, up to the operation's return or raise; inside                *)
(* search_by_gene_symbol, on to the next fetch or to the return.           *)
(***************************************************************************)

\* a failed attempt is tried again
get_again_on_failure(got) == got.kind = "raise"

\* _make_request has no loop around the GET: whatever the attempt ended in,
\* there is no further attempt
get_again(got) == FALSE

\* only the not-found error of a fetch is caught
swallowed_if_not_found(exc) == exc.type = "Exception" /\ exc.msg = "No data found for gene ID"

\* search_by_gene_symbol: "except Exception: continue" around fetch_gene_info
\* catches whatever the fetch raises
swallowed(exc) == TRUE

\* the gene is put in front of the list
append_in_front(l, gene_info) == <<gene_info>> \o l

\* search_by_gene_symbol: "genes.append(gene_info)"
append(l, gene_info) == Append(l, gene_info)

\* web_app.py get_gene_info_api, api/app.py get_gene_info: the HTTP response;
\* the other handlers of the web front-end answer the same way
get_gene_info_api_response(res) ==
    IF res.kind = "return"
    THEN [data |-> res.value, kind |-> "response", status |-> 200]
    ELSE [detail |-> res.exc, kind |-> "response", status |-> 500]

session_get ==
    /\ pc = "get"
    /\ \E a \in get_outcomes(config[call.inst].timeout, req) :
         LET b == call.inst
             impl == Impl(b)
             res == operation_result(impl, req, a)
             again == get_again(make_request_result(a))
             in_symbol == call.op \in {"search_by_gene_symbol", "search_by_symbol_api"}
             searched == in_symbol /\ req.op = "search_genes"
             failed == in_symbol /\ res.kind = "raise" /\ (searched \/ ~swallowed(res.exc))
             got_gene == in_symbol /\ ~searched /\ res.kind = "return"
             ids1 == IF searched /\ ~failed THEN fetch_ids(impl, res.value.ids) ELSE ids
             genes1 == IF got_gene /\ keeps(impl, res.value, call.arg)
                       THEN append(genes, res.value) ELSE genes
             idx1 == IF in_symbol THEN idx + 1 ELSE idx
             more == in_symbol /\ ~failed /\ idx1 <= Len(ids1)
             others == { c \in InstancesOf(program) \ {b} : get_at[c] >= 0 }
         IN  /\ now' = now
             /\ get_at' = [get_at EXCEPT ![b] = now]
             /\ gaps' = [inst |-> b,
                         own |-> IF get_at[b] < 0 THEN -1
                                 ELSE Min(now - get_at[b], FarApart),
                         proc |-> IF others = {} THEN -1
                                  ELSE Min(now - (CHOOSE t \in {get_at[c] : c \in others} :
                                                    \A c \in others : get_at[c] <= t),
                                           FarApart)]
             /\ answer' = IF in_symbol THEN None ELSE a
             /\ sent' = request_params(impl, config[b], req)
             /\ IF again
                THEN /\ n' = [n EXCEPT !.search = @ + (IF req.endpoint = "esearch" THEN 1 ELSE 0),
                                       !.fetch = @ + (IF req.endpoint = "esummary" THEN 1 ELSE 0)]
                     /\ UNCHANGED <<pc, req, ids, idx, genes, outcome, search_res, fetched>>
                ELSE /\ n' = [n EXCEPT !.search = @ + (IF req.endpoint = "esearch" THEN 1 ELSE 0),
                                       !.fetch = @ + (IF req.endpoint = "esummary" THEN 1 ELSE 0),
                                       !.make_request = @ + (IF more THEN 1 ELSE 0)]
                     /\ ids' = ids1
                     /\ genes' = genes1
                     /\ idx' = idx1
                     /\ search_res' = IF ~searched THEN search_res
                                      ELSE IF failed THEN res
                                      ELSE [ids |-> res.value.ids, kind |-> "return"]
                     /\ fetched' = IF got_gene THEN Append(fetched, res.value) ELSE fetched
                     /\ IF more
                        THEN /\ pc' = "rate_limit"
                             /\ req' = SummaryReq("fetch_gene_info", "gene", ids1[idx1])
                             /\ outcome' = None
                        ELSE /\ pc' = "done"
                             /\ req' = req
                             /\ outcome' =
                                   LET result == IF ~in_symbol \/ failed THEN res
                                                 ELSE Return(genes1)
                                   IN  IF call.op \in WebHandlers
                                       THEN get_gene_info_api_response(result)
                                       ELSE result
    /\ UNCHANGED <<program, request_delay, last_request_time, call, acq, config>>
    /\ UNCHANGED mcp_vars
    /\ UNCHANGED <<wrapper, wcall, tasks>>

(***************************************************************************)
(* The caller has the result: the bridge is idle again.                    *)
(***************************************************************************)
return_to_caller ==
    /\ \/ pc = "done" /\ wcall = None
       \/ pc = "returned"
    /\ server = "off"
    /\ pc' = "idle"
    /\ call' = None
    /\ req' = None
    /\ ids' = << >>
    /\ idx' = 0
    /\ genes' = << >>
    /\ outcome' = None
    /\ n' = NoCounts
    /\ search_res' = None
    /\ fetched' = << >>
    /\ answer' = None
    /\ acq' = None
    /\ gaps' = None
    /\ sent' = None
    /\ wcall' = None
    /\ UNCHANGED tasks
    /\ UNCHANGED <<now, program, request_delay, last_request_time, get_at, config, wrapper>>
    /\ UNCHANGED mcp_vars

Next ==
    \/ Tick
    \/ \E b \in Instances, query \in Queries, max_results \in MaxResultsValues :
          search_genes(b, query, max_results)
    \/ \E b \in Instances, gene_id \in ArgIds : fetch_gene_info(b, gene_id)
    \/ \E b \in Instances, protein_id \in ArgIds : fetch_protein_info(b, protein_id)
    \/ \E b \in Instances, so \in SymbolArgs : search_by_gene_symbol(b, so[1], so[2])
    \/ \E gene_id \in ArgIds : get_gene_info_api(gene_id)
    \/ \E query \in WebQueries : search_genes_api(query, DefaultMaxResults)
    \/ \E symbol \in WebSymbols : search_by_symbol_api(symbol, None)
    \/ _rate_limit
    \/ session_get
    \/ return_to_caller

Spec == Init /\ [][Next]_vars

(***************************************************************************)
(* The MCP server of mcp_server.py: a process that reads JSON-RPC requests *)
(* from stdin, one per line, and writes one response per request to        *)
(* stdout.  Its bridge is b1, built from the default Config.  The host is  *)
(* the environment: it writes any line of Lines next, or closes the input. *)
(***************************************************************************)
ToolNames == {"search_genes", "fetch_gene_info", "fetch_protein_info",
              "search_by_gene_symbol"}

\* the arguments of a tools/call request
ToolArguments ==
    { Str("x"),                                   \* arguments that are no object
      EmptyObject,
      [query |-> Str("")],
      [query |-> Str("BRCA1[gene]")],
      [max_results |-> Num(1), query |-> Str("BRCA1[gene]")],
      [gene_id |-> Str("")],
      [gene_id |-> Str("672")],
      [protein_id |-> Str("672")],
      [symbol |-> Str("")],
      [organism |-> Str("human"), symbol |-> Str("BRCA1")] }

\* the params of a tools/call request
CallParams ==
    { [arguments |-> a, name |-> Str(nm)] : a \in ToolArguments, nm \in ToolNames \cup {"nope"} }
      \cup { [name |-> Str(nm)] : nm \in ToolNames }
      \cup { [arguments |-> [query |-> Str("BRCA1[gene]")]] }

\* the params of any request
ParamsValues == CallParams \cup {EmptyObject, JNull, Str("x")}

\* the request objects the host sends, with and without an id
Requests ==
    LET bodies == { [method |-> Str(m), params |-> ps] :
                       m \in {"initialize", "tools/list", "ping"},
                       ps \in {EmptyObject, JNull} }
                  \cup { [method |-> Str(m)] : m \in {"initialize", "tools/list", "tools/call", "ping"} }
                  \cup { [method |-> Str("tools/call"), params |-> ps] : ps \in ParamsValues }
                  \cup { [params |-> EmptyObject] }                \* no method
    IN  bodies \cup { [r \in {"id"} \cup DOMAIN b |-> IF r = "id" THEN Num(7) ELSE b[r]] :
                         b \in bodies }

\* a line of stdin after line.strip(): empty, text that is not JSON, or JSON
BlankLine == [kind |-> "blank"]
Lines ==
    {BlankLine, NotJson}
      \cup { Json(d) : d \in {List(<< >>), Str("initialize"), Num(1), JNull} }
      \cup { Json(d) : d \in Requests }

\* str(e)
str_exc(exc) == Str(exc.msg)

\* the error is written next to the result
send_response_both(id, result, error) ==
    [error |-> [code |-> -1, message |-> error], id |-> id, jsonrpc |-> "2.0", result |-> result]

\* send_response: the line printed for result and error
send_response(id, result, error) ==
    IF ~Falsy(error)
    THEN [error |-> [code |-> -1, message |-> error.s], id |-> id, jsonrpc |-> "2.0"]
    ELSE [id |-> id, jsonrpc |-> "2.0", result |-> result]

\* handle_initialize and handle_list_tools: the result they send
initialize_result ==
    [protocolVersion |-> "2024-11-05",
     serverInfo |-> [name |-> "ncbi_gene_mcp_client-mcp", version |-> "0.1.0"]]
list_tools_result ==
    [tools |-> <<"search_genes", "fetch_gene_info", "fetch_protein_info",
                 "search_by_gene_symbol">>]

\* only an absent argument is rejected
required_missing_if_absent(value) == value = JNull

\* handle_call_tool: "if not query", "if not gene_id", "if not protein_id",
\* "if not symbol"
required_missing(value) == Falsy(value)

\* handle_call_tool up to the bridge call: the exception it raises, or the
\* bridge operation it calls
tool_plan(params) ==
    LET name == Get(params, "name", JNull)
        arguments == Get(params, "arguments", EmptyObject)
        required == CASE name = Str("search_genes") -> "query"
                      [] name = Str("fetch_gene_info") -> "gene_id"
                      [] name = Str("fetch_protein_info") -> "protein_id"
                      [] OTHER -> "symbol"
        value == Get(arguments, required, JNull)
    IN  IF ~(IsStr(name) /\ name.s \in ToolNames)
        THEN Raise(Exc("ValueError", "Unknown tool"))
        ELSE IF ~IsObject(arguments) THEN Raise(Exc("AttributeError", "get"))
        ELSE IF required_missing(value) THEN Raise(Exc("ValueError", required \o " is required"))
        ELSE [arg |-> value.s, kind |-> "call",
              max_results |-> Get(arguments, "max_results", Num(DefaultMaxResults)).n,
              op |-> name.s,
              organism |-> Get(arguments, "organism", None)]

\* handle_call_tool after the bridge call: the text of the result it sends
tool_result(op, value) ==
    [content |->
        <<[text |->
              CASE op = "search_genes" ->
                     [count |-> value.count,
                      ids |-> SubSeq(value.ids, 1, Min(10, Len(value.ids))),
                      query_translation |-> IF Falsy(value.query_translation) THEN Str("N/A")
                                            ELSE value.query_translation]
                [] op = "search_by_gene_symbol" -> [found |-> Len(value), genes |-> value]
                [] OTHER -> value,
           type |-> "text"]>>]

\* a request without an id keeps the id of the request before it
new_request_id_or_old(r, old) == Get(r, "id", old)

\* handle_request: "self.request_id = request.get("id", 0)"
new_request_id(r, old) == Get(r, "id", Num(0))

\* handle_request without a bridge call: what it answers the request with
request_answer(r) ==
    LET method == Get(r, "method", JNull)
        params == Get(r, "params", EmptyObject)
        id == new_request_id(r, request_id)
    IN  CASE method = Str("initialize") -> send_response(id, initialize_result, None)
          [] method = Str("tools/list") -> send_response(id, list_tools_result, None)
          [] method = Str("tools/call") ->
                IF ~IsObject(params)
                THEN send_response(id, JNull, str_exc(Exc("AttributeError", "get")))
                ELSE send_response(id, JNull, str_exc(tool_plan(params).exc))
          [] OTHER -> send_response(id, JNull, Str("Unknown method"))

\* whether handling request r reaches a bridge operation
calls_bridge(r) ==
    /\ Get(r, "method", JNull) = Str("tools/call")
    /\ IsObject(Get(r, "params", EmptyObject))
    /\ tool_plan(Get(r, "params", EmptyObject)).kind = "call"

InitMcp ==
    /\ now = ClockStart
    /\ program = "mcp"
    /\ request_delay = [b \in Instances |-> DefaultDelay]
    /\ last_request_time = [b \in Instances |-> 0]
    /\ pc = "idle"
    /\ call = None
    /\ req = None
    /\ ids = << >>
    /\ idx = 0
    /\ genes = << >>
    /\ outcome = None
    /\ acq = None
    /\ get_at = [b \in Instances |-> -1]
    /\ gaps = None
    /\ n = NoCounts
    /\ search_res = None
    /\ fetched = << >>
    /\ answer = None
    /\ server = "reading"
    /\ request_id = Num(0)
    /\ request = None
    /\ responses = << >>
    /\ config = [b \in Instances |-> DefaultConfig]
    /\ sent = None
    /\ wrapper = None
    /\ wcall = None
    /\ tasks = NoTasks

bridge_vars == <<now, program, request_delay, last_request_time, pc, call, req, ids, idx,
                 genes, outcome, acq, get_at, gaps, n, search_res, fetched, answer,
                 config, sent, wrapper, wcall, tasks>>

\* run: an empty line, or a line that json.loads rejects, is skipped
skip_line(line) ==
    /\ server = "reading"
    /\ line = BlankLine \/ line = NotJson
    /\ responses' = << >>
    /\ request' = None
    /\ UNCHANGED <<server, request_id>>
    /\ UNCHANGED bridge_vars

\* run: a line that is JSON but no object; request.get raises outside the
\* try of handle_request, and the exception leaves run
crash_on_line(line) ==
    /\ server = "reading"
    /\ line \notin {BlankLine, NotJson}
    /\ ~IsObject(line.doc)
    /\ server' = "crashed"
    /\ responses' = << >>
    /\ request' = None
    /\ UNCHANGED request_id
    /\ UNCHANGED bridge_vars

\* run and handle_request for a request answered without a bridge call
handle_request(line) ==
    /\ server = "reading"
    /\ line \notin {BlankLine, NotJson}
    /\ IsObject(line.doc)
    /\ ~calls_bridge(line.doc)
    /\ request_id' = new_request_id(line.doc, request_id)
    /\ responses' = <<request_answer(line.doc)>>
    /\ request' = line.doc
    /\ UNCHANGED server
    /\ UNCHANGED bridge_vars

\* run, handle_request and handle_call_tool up to the call of the bridge
\* operation
handle_call_tool(line) ==
    /\ server = "reading"
    /\ line \notin {BlankLine, NotJson}
    /\ IsObject(line.doc)
    /\ calls_bridge(line.doc)
    /\ LET plan == tool_plan(line.doc.params)
       IN  Begin(plan.op, "b1", plan.arg, plan.organism,
                 CASE plan.op = "search_genes" ->
                        SearchReq("search_genes", plan.arg, plan.max_results)
                   [] plan.op = "fetch_gene_info" ->
                        SummaryReq("fetch_gene_info", "gene", plan.arg)
                   [] plan.op = "fetch_protein_info" ->
                        SummaryReq("fetch_protein_info", "protein", plan.arg)
                   [] OTHER ->
                        SearchReq("search_genes", build_query("pkg", plan.arg, plan.organism),
                                  symbol_retmax("pkg")))
    /\ server' = "calling"
    /\ request_id' = new_request_id(line.doc, request_id)
    /\ request' = line.doc
    /\ responses' = << >>
    /\ UNCHANGED <<wrapper, wcall, tasks>>

\* handle_call_tool after the bridge operation returned or raised
tool_respond ==
    /\ server = "calling"
    /\ pc = "done"
    /\ responses' = <<IF outcome.kind = "raise"
                      THEN send_response(request_id, JNull, str_exc(outcome.exc))
                      ELSE send_response(request_id, tool_result(call.op, outcome.value), None)>>
    /\ server' = "reading"
    /\ pc' = "idle"
    /\ call' = None
    /\ req' = None
    /\ ids' = << >>
    /\ idx' = 0
    /\ genes' = << >>
    /\ outcome' = None
    /\ n' = NoCounts
    /\ search_res' = None
    /\ fetched' = << >>
    /\ answer' = None
    /\ acq' = None
    /\ gaps' = None
    /\ sent' = None
    /\ UNCHANGED <<now, program, request_delay, last_request_time, get_at, request_id,
                   request, config, wrapper, wcall, tasks>>

\* run: the for loop over sys.stdin ends at end of input
end_of_input ==
    /\ server = "reading"
    /\ server' = "ended"
    /\ UNCHANGED <<request_id, request, responses>>
    /\ UNCHANGED bridge_vars

NextMcp ==
    \/ Tick
    \/ \E line \in Lines : skip_line(line)
    \/ \E line \in Lines : crash_on_line(line)
    \/ \E line \in Lines : handle_request(line)
    \/ \E line \in Lines : handle_call_tool(line)
    \/ _rate_limit
    \/ session_get
    \/ tool_respond
    \/ end_of_input

McpSpec == InitMcp /\ [][NextMcp]_vars

(***************************************************************************)
(* Callers that configure their bridge.  "wrap" holds the wrapper          *)
(* NCBIGeneMCPClientBridge(email, api_key) of main.py and calls the        *)
(* bridge b1 through it; "cfg" builds a Config of its own, which nothing   *)
(* validates, and NCBIBridge(config); "api" is api/app.py, whose bridge    *)
(* has no Config.                                                          *)
(***************************************************************************)
Emails == {None, Str(""), Str("me@example.org")}
ApiKeys == {None, Str("key")}

\* the timeout and request_delay a caller may put in its Config
CallerTimeouts == {DefaultTimeout, 0}
CallerDelays == {DefaultDelay, -1}

\* NCBIGeneMCPClientBridge.__init__: Config(email=email, api_key=api_key)
wrapper_config(email, api_key) ==
    [api_key |-> api_key, email |-> email, timeout |-> DefaultTimeout]

\* max_results is left to the bridge's default
delegate_default_max_results(w) ==
    [arg |-> w.arg, max_results |-> DefaultMaxResults, op |-> w.op, organism |-> w.organism]

\* NCBIGeneMCPClientBridge: the call of self.bridge an operation makes, as
\* "return self.bridge.search_genes(query, max_results)"
delegate(w) ==
    [arg |-> w.arg, max_results |-> w.max_results, op |-> w.op, organism |-> w.organism]

\* NCBIGeneMCPClientBridge: "return self.bridge. ...": what the wrapper hands
\* to its caller
wrapper_result(res) == res

InitConfig ==
    /\ now = ClockStart
    /\ program \in {"wrap", "cfg", "api"}
    /\ \/ /\ program = "wrap"
          /\ wrapper \in { [api_key |-> k, email |-> e] : k \in ApiKeys, e \in Emails }
          /\ config = [b \in Instances |->
                          IF b = "b1" THEN wrapper_config(wrapper.email, wrapper.api_key)
                          ELSE DefaultConfig]
          /\ request_delay = [b \in Instances |-> DefaultDelay]
       \/ /\ program = "cfg"
          /\ wrapper = None
          /\ \E t \in CallerTimeouts :
                config = [b \in Instances |->
                             IF b = "b1" THEN [api_key |-> None, email |-> None, timeout |-> t]
                             ELSE DefaultConfig]
          /\ \E d \in CallerDelays :
                request_delay = [b \in Instances |-> IF b = "b1" THEN d ELSE DefaultDelay]
       \/ /\ program = "api"
          /\ wrapper = None
          /\ config = [b \in Instances |-> DefaultConfig]
          /\ request_delay = [b \in Instances |-> DefaultDelay]
    /\ last_request_time = [b \in Instances |-> 0]
    /\ pc = "idle"
    /\ call = None
    /\ req = None
    /\ ids = << >>
    /\ idx = 0
    /\ genes = << >>
    /\ outcome = None
    /\ acq = None
    /\ get_at = [b \in Instances |-> -1]
    /\ gaps = None
    /\ n = NoCounts
    /\ search_res = None
    /\ fetched = << >>
    /\ answer = None
    /\ server = "off"
    /\ request_id = Num(0)
    /\ request = None
    /\ responses = << >>
    /\ sent = None
    /\ wcall = None
    /\ tasks = NoTasks

\* an operation of the wrapper up to the first _make_request of the bridge
\* operation it calls
Delegate(w) ==
    /\ program = "wrap"
    /\ LET d == delegate(w)
       IN  Begin(d.op, "b1", d.arg, d.organism,
                 CASE d.op = "search_genes" -> SearchReq("search_genes", d.arg, d.max_results)
                   [] d.op = "fetch_gene_info" -> SummaryReq("fetch_gene_info", "gene", d.arg)
                   [] d.op = "fetch_protein_info" ->
                        SummaryReq("fetch_protein_info", "protein", d.arg)
                   [] OTHER ->
                        SearchReq("search_genes", build_query("pkg", d.arg, d.organism),
                                  symbol_retmax("pkg")))
    /\ wcall' = w
    /\ UNCHANGED tasks
    /\ UNCHANGED wrapper

wrapper_search_genes(query, max_results) ==
    /\ Delegate([arg |-> query, max_results |-> max_results, op |-> "search_genes",
                 organism |-> None])
    /\ UNCHANGED mcp_vars

wrapper_fetch_gene_info(gene_id) ==
    /\ Delegate([arg |-> gene_id, max_results |-> 0, op |-> "fetch_gene_info",
                 organism |-> None])
    /\ UNCHANGED mcp_vars

wrapper_fetch_protein_info(protein_id) ==
    /\ Delegate([arg |-> protein_id, max_results |-> 0, op |-> "fetch_protein_info",
                 organism |-> None])
    /\ UNCHANGED mcp_vars

wrapper_search_by_gene_symbol(symbol, organism) ==
    /\ Delegate([arg |-> symbol, max_results |-> 0, op |-> "search_by_gene_symbol",
                 organism |-> organism])
    /\ UNCHANGED mcp_vars

\* the bridge operation is back in the wrapper, which returns
wrapper_return ==
    /\ pc = "done"
    /\ wcall # None
    /\ pc' = "returned"
    /\ outcome' = (IF outcome.kind = "raise" THEN outcome ELSE wrapper_result(outcome))
    /\ UNCHANGED <<now, program, request_delay, last_request_time, call, req, ids, idx,
                   genes, acq, get_at, gaps, n, search_res, fetched, answer,
                   config, sent, wrapper, wcall, tasks>>
    /\ UNCHANGED mcp_vars

NextConfig ==
    \/ Tick
    \/ \E m \in MaxResultsValues : wrapper_search_genes("BRCA1[gene]", m)
    \/ wrapper_fetch_gene_info("672")
    \/ wrapper_fetch_protein_info("672")
    \/ \E organism \in {None, Str("human")} : wrapper_search_by_gene_symbol("BRCA1", organism)
    \/ program # "wrap" /\ \E m \in MaxResultsValues :
                              search_genes(WebClient(program), "BRCA1[gene]", m)
    \/ program # "wrap" /\ fetch_gene_info(WebClient(program), "672")
    \/ _rate_limit
    \/ session_get
    \/ wrapper_return
    \/ return_to_caller

ConfigSpec == InitConfig /\ [][NextConfig]_vars

(***************************************************************************)
(* Several web requests in flight on the one client of a web front-end.    *)
(* Every handler of web_app.py and api/app.py is an "async def" that calls *)
(* the blocking bridge without an await, so the event loop runs a handler  *)
(* up to its response before it starts another.  _rate_limit is taken      *)
(* apart into its statements: current_time, time_since_last and the sleep  *)
(* are local to the handler that runs it, last_request_time is the         *)
(* client's.                                                               *)
(***************************************************************************)
\* handlers run on the threads of a pool: one starts while another runs
may_start_in_thread(running) == TRUE

\* the event loop starts a handler when no handler is running
may_start(running) == running = {}

\* the handlers that were started and have not written their response
Running == { t \in WebRequests : tasks[t].pc \notin {"idle", "pending"} }

\* the upstream calls a handler may make: none for a blank query or symbol
\* in web_app.py, one for a search or a gene, one search and one fetch per
\* id found for a symbol
UpstreamCalls(p, op) ==
    IF op = "get_gene_info_api" THEN {1}
    ELSE IF op = "search_genes_api" THEN (IF p = "api" THEN {1} ELSE {0, 1})
    ELSE (IF p = "api" THEN 1..(1 + ShortLen) ELSE 0..(1 + ShortLen))

\* what the handlers of the web requests leave alone
web_frame == <<program, request_delay, pc, call, req, ids, idx, genes, outcome, acq, n,
               search_res, fetched, answer, config, sent, wrapper, wcall>>

InitWeb ==
    /\ now = ClockStart
    /\ program \in {"pkg", "api"}
    /\ request_delay = [b \in Instances |-> DefaultDelay]
    /\ last_request_time = [b \in Instances |-> 0]
    /\ pc = "idle"
    /\ call = None
    /\ req = None
    /\ ids = << >>
    /\ idx = 0
    /\ genes = << >>
    /\ outcome = None
    /\ acq = None
    /\ get_at = [b \in Instances |-> -1]
    /\ gaps = None
    /\ n = NoCounts
    /\ search_res = None
    /\ fetched = << >>
    /\ answer = None
    /\ server = "off"
    /\ request_id = Num(0)
    /\ request = None
    /\ responses = << >>
    /\ config = [b \in Instances |-> DefaultConfig]
    /\ sent = None
    /\ wrapper = None
    /\ wcall = None
    /\ tasks = NoTasks

\* time passes, in a sleep, during a GET and between the handlers; a tick is
\* far longer than the return of _rate_limit and the call of session.get
\* that follows it
WebTick ==
    /\ now < ClockStart + WebMaxTime
    /\ \A t \in WebRequests : tasks[t].pc # "get"
    /\ now' = now + 1
    /\ UNCHANGED <<last_request_time, get_at, gaps, tasks>>
    /\ UNCHANGED web_frame /\ UNCHANGED mcp_vars

\* a request arrives and waits for the event loop
web_request(t, op) ==
    /\ tasks[t].pc = "idle"
    /\ \E k \in UpstreamCalls(program, op) :
         tasks' = [tasks EXCEPT ![t] = [left |-> k, op |-> op, pc |-> "pending", wake |-> 0]]
    /\ UNCHANGED <<now, last_request_time, get_at, gaps>>
    /\ UNCHANGED web_frame /\ UNCHANGED mcp_vars

\* the handler of a request starts
web_start(t) ==
    /\ tasks[t].pc = "pending"
    /\ may_start(Running)
    /\ tasks' = [tasks EXCEPT ![t].pc = IF tasks[t].left = 0 THEN "finish" ELSE "check"]
    /\ UNCHANGED <<now, last_request_time, get_at, gaps>>
    /\ UNCHANGED web_frame /\ UNCHANGED mcp_vars

\* _rate_limit: current_time, time_since_last and the comparison
web_check(t) ==
    /\ tasks[t].pc = "check"
    /\ LET b == WebClient(program)
           current_time == now
           time_since_last == current_time - last_request_time[b]
       IN  tasks' = IF must_wait(request_delay[b], time_since_last)
                    THEN [tasks EXCEPT ![t].pc = "sleep",
                                       ![t].wake = current_time +
                                           Max(sleep_time(request_delay[b], time_since_last), 0)]
                    ELSE [tasks EXCEPT ![t].pc = "stamp"]
    /\ UNCHANGED <<now, last_request_time, get_at, gaps>>
    /\ UNCHANGED web_frame /\ UNCHANGED mcp_vars

\* _rate_limit: time.sleep returns, not before the time asked for has passed
web_wake(t) ==
    /\ tasks[t].pc = "sleep"
    /\ now >= tasks[t].wake
    /\ tasks' = [tasks EXCEPT ![t].pc = "stamp"]
    /\ UNCHANGED <<now, last_request_time, get_at, gaps>>
    /\ UNCHANGED web_frame /\ UNCHANGED mcp_vars

\* _rate_limit: "self.last_request_time = time.time()"
web_stamp(t) ==
    /\ tasks[t].pc = "stamp"
    /\ LET b == WebClient(program)
       IN  last_request_time' =
               [last_request_time EXCEPT ![b] = stamp(now, last_request_time[b])]
    /\ tasks' = [tasks EXCEPT ![t].pc = "get"]
    /\ UNCHANGED <<now, get_at, gaps>>
    /\ UNCHANGED web_frame /\ UNCHANGED mcp_vars

\* _make_request: session.get starts
web_get(t) ==
    /\ tasks[t].pc = "get"
    /\ LET b == WebClient(program)
       IN  /\ get_at' = [get_at EXCEPT ![b] = now]
           /\ gaps' = [inst |-> b,
                       own |-> IF get_at[b] < 0 THEN -1 ELSE Min(now - get_at[b], FarApart),
                       proc |-> -1]
    /\ tasks' = [tasks EXCEPT ![t].pc = "got", ![t].left = @ - 1]
    /\ UNCHANGED <<now, last_request_time>>
    /\ UNCHANGED web_frame /\ UNCHANGED mcp_vars

\* session.get returns: the handler goes on to its next upstream call, or ends
web_got(t) ==
    /\ tasks[t].pc = "got"
    /\ tasks' = [tasks EXCEPT ![t].pc = IF tasks[t].left = 0 THEN "finish" ELSE "check"]
    /\ UNCHANGED <<now, last_request_time, get_at, gaps>>
    /\ UNCHANGED web_frame /\ UNCHANGED mcp_vars

\* the handler returns and the response is written
web_finish(t) ==
    /\ tasks[t].pc = "finish"
    /\ tasks' = [tasks EXCEPT ![t] = NoTasks[t]]
    /\ UNCHANGED <<now, last_request_time, get_at, gaps>>
    /\ UNCHANGED web_frame /\ UNCHANGED mcp_vars

NextWeb ==
    \/ WebTick
    \/ \E t \in WebRequests, op \in WebHandlers : web_request(t, op)
    \/ \E t \in WebRequests : web_start(t)
    \/ \E t \in WebRequests : web_check(t)
    \/ \E t \in WebRequests : web_wake(t)
    \/ \E t \in WebRequests : web_stamp(t)
    \/ \E t \in WebRequests : web_get(t)
    \/ \E t \in WebRequests : web_got(t)
    \/ \E t \in WebRequests : web_finish(t)

WebSpec == InitWeb /\ [][NextWeb]_vars

(***************************************************************************)
(* Properties.                                                             *)
(***************************************************************************)

\* C1: on one instance used serially, _rate_limit returns no sooner than
\* request_delay after its previous return (the sentinel 0 of a fresh bridge
\* counting as a return at time 0), and two consecutive GETs of the instance
\* start at least request_delay apart, the fetches inside one
\* search_by_gene_symbol included.
C1_RateLimitSpacing ==
    /\ acq # None => acq.elapsed >= request_delay[acq.inst]
    /\ (gaps # None /\ gaps.own >= 0) => gaps.own >= request_delay[gaps.inst]

\* a fetch inside search_by_gene_symbol had to wait, and started exactly
\* request_delay after the GET before it
C1_Witness ==
    /\ call # None /\ call.op = "search_by_gene_symbol"
    /\ n.fetch >= 2
    /\ acq # None /\ acq.waited /\ acq.asked > 0 /\ ~acq.first
    /\ gaps # None /\ gaps.own = request_delay[call.inst]

\* C2: _rate_limit returns without sleeping when the time since its previous
\* return exceeds request_delay, and the first call on a fresh bridge
\* (last_request_time = 0) never sleeps.
C2_NoWaitWhenElapsed ==
    acq # None =>
        /\ acq.since > request_delay[acq.inst] => (~acq.waited /\ acq.returned = now)
        /\ acq.first => (~acq.waited /\ acq.returned = now)

\* a later call on a bridge with a positive delay found more than the delay
\* elapsed and did not sleep
C2_Witness ==
    /\ acq # None /\ ~acq.first /\ ~acq.waited
    /\ request_delay[acq.inst] > 0
    /\ acq.since > request_delay[acq.inst]

\* C3: every _make_request call makes exactly one _rate_limit acquisition,
\* before its GET, and at most one GET; a failed attempt is raised to the
\* caller and not retried; the timestamp is the time of the acquisition whether
\* the attempt succeeded or failed.
C3_OneAcquisitionOneGet ==
    call # None =>
        /\ pc = "rate_limit" =>
              /\ n.rate_limit = n.make_request - 1
              /\ n.search + n.fetch = n.make_request - 1
        /\ pc = "get" =>
              /\ n.rate_limit = n.make_request
              /\ n.search + n.fetch = n.make_request - 1
              /\ last_request_time[call.inst] = acq.returned
        /\ (pc = "done" /\ n.make_request > 0) =>
              /\ n.rate_limit = n.make_request
              /\ n.search + n.fetch = n.make_request
              /\ last_request_time[call.inst] = acq.returned
              /\ last_request_time[call.inst] = get_at[call.inst]
        /\ (pc = "done" /\ answer # None /\ make_request_result(answer).kind = "raise") =>
              /\ outcome = (IF call.op \in WebHandlers
                            THEN get_gene_info_api_response(make_request_result(answer))
                            ELSE make_request_result(answer))
              /\ n.search + n.fetch = 1

\* a GET that timed out was raised after one acquisition and one GET
C3_Witness ==
    /\ pc = "done" /\ call.op = "fetch_gene_info"
    /\ answer = [kind |-> "timeout"]
    /\ outcome = Raise(Exc("Timeout", "timed out"))
    /\ n.rate_limit = 1 /\ n.fetch = 1
    /\ last_request_time[call.inst] = now

\* C4 (as claimed): the rate budget is process-wide: a GET starts at least
\* request_delay after the latest GET of every other bridge of the process.
C4_ProcessWideSpacing ==
    (gaps # None /\ gaps.proc >= 0) => gaps.proc >= request_delay[gaps.inst]

\* C5 (as claimed): when its search succeeds, search_by_gene_symbol returns
\* normally, every id of the search is fetched whatever happened to the ids
\* before it, and the result is exactly the entities fetch_gene_info returned.
C5_ExactlyTheFetched ==
    (pc = "done" /\ call.op = "search_by_gene_symbol" /\ search_res.kind = "return") =>
        /\ outcome.kind = "return"
        /\ n.fetch = Len(ids)
        /\ outcome.value = fetched

\* C5 (amended): as C5, except that the bridge of api/app.py returns, of the
\* entities fetch_gene_info returned, those whose name is the symbol ignoring
\* case, in the same order.
C5_TheFetchedThatMatch ==
    (pc = "done" /\ call.op = "search_by_gene_symbol" /\ search_res.kind = "return") =>
        LET named(g) == upper(g.name) = upper(call.arg)
        IN  /\ outcome.kind = "return"
            /\ n.fetch = Len(ids)
            /\ Impl(call.inst) = "pkg" => outcome.value = fetched
            /\ Impl(call.inst) = "api" => outcome.value = SelectSeq(fetched, named)

\* of two ids the first fetch failed and the second succeeded: the result is
\* the second entity alone
C5_Witness ==
    /\ pc = "done" /\ call.op = "search_by_gene_symbol"
    /\ ids = <<"672", "675">>
    /\ n.fetch = 2
    /\ Len(fetched) = 1
    /\ fetched[1].gene_id = "675" /\ fetched[1].name = "TP53"
    /\ outcome = Return(fetched)

\* C6: search_by_gene_symbol raises exactly when its search_genes call raised,
\* then with that very error and without any fetch; and search_genes,
\* fetch_gene_info and fetch_protein_info called directly raise the error of a
\* failed attempt and return a result only from a 200 answer with a JSON
\* object (for a fetch: one that holds a record under the id).
C6_OnlyFetchErrorsSwallowed ==
    /\ (pc = "done" /\ call.op = "search_by_gene_symbol") =>
          /\ outcome.kind = "raise" <=> search_res.kind = "raise"
          /\ outcome.kind = "raise" => (outcome = search_res /\ n.fetch = 0)
    /\ (pc = "done" /\ call.op \in {"search_genes", "fetch_gene_info", "fetch_protein_info"}) =>
          /\ answer.kind = "timeout" => outcome = Raise(Exc("Timeout", "timed out"))
          /\ (answer.kind = "response" /\ answer.code # 200) =>
                (outcome.kind = "raise" /\ outcome.exc.msg = "NCBI API request failed")
          /\ (answer.kind = "response" /\ answer.code = 200 /\ ~answer.body.json) =>
                outcome = Raise(Exc("JSONDecodeError", "invalid JSON"))
          /\ outcome.kind = "return" =>
                /\ answer.kind = "response" /\ answer.code = 200 /\ answer.body.json
                /\ IsObject(answer.body.doc)
                /\ call.op # "search_genes" =>
                      call.arg \in DOMAIN Get(answer.body.doc, "result", EmptyObject)

\* the search of search_by_gene_symbol was answered with status 500: the call
\* raised that error and fetched nothing
C6_Witness ==
    /\ pc = "done" /\ call.op = "search_by_gene_symbol"
    /\ outcome.kind = "raise"
    /\ outcome.exc = [msg |-> "NCBI API request failed", status |-> 500, type |-> "Exception"]
    /\ n.search = 1 /\ n.fetch = 0

\* C7 (as claimed): one search_by_gene_symbol call makes at most one search
\* and at most ten fetches.
C7_AtMostTenFetches ==
    (call # None /\ call.op = "search_by_gene_symbol") =>
        (n.search <= 1 /\ n.fetch <= ApiFetchCap)

\* C8 (as claimed): a call with an empty or blank argument makes no upstream
\* request and leaves last_request_time as it was.
C8_BlankRejected ==
    (call # None /\ call.op \notin WebHandlers /\ strip(call.arg) = "") =>
        /\ n.rate_limit = 0 /\ n.search + n.fetch = 0
        /\ last_request_time[call.inst] = call.t0
        /\ pc = "done" => outcome.kind = "raise"

\* C9 (as claimed): a fetch raises not-found when the result mapping holds
\* nothing under the id, and returns an entity with the caller's id when the
\* mapping holds a record under it, whatever the record's fields.
C9_RecordUnderId ==
    (/\ pc = "done" /\ call.op \in {"fetch_gene_info", "fetch_protein_info"}
     /\ answer.kind = "response" /\ answer.code = 200 /\ answer.body.json
     /\ IsObject(answer.body.doc)) =>
        LET result == Get(answer.body.doc, "result", EmptyObject)
        IN  /\ call.arg \notin DOMAIN result =>
                (outcome.kind = "raise" /\ outcome.exc.type = "Exception")
            /\ (call.arg \in DOMAIN result /\ IsObject(result[call.arg])) =>
                /\ outcome.kind = "return"
                /\ call.op = "fetch_gene_info" => outcome.value.gene_id = call.arg
                /\ call.op = "fetch_protein_info" => outcome.value.protein_id = call.arg

\* C10 (as claimed): GET /api/gene/{gene_id} answers an id that has no
\* upstream record with a not-found status, not with the 500 of a transport
\* error.
C10_NotFoundIsNot500 ==
    (/\ pc = "done" /\ call.op = "get_gene_info_api"
     /\ answer.kind = "response" /\ answer.code = 200 /\ answer.body.json
     /\ IsObject(answer.body.doc)
     /\ call.arg \notin DOMAIN Get(answer.body.doc, "result", EmptyObject)) =>
        (outcome.status = 404 /\ outcome.status # 500)

\* C11 (as claimed): _make_request raises an error that carries the status
\* exactly when the upstream answers with a status outside 200..299, and an
\* answer with a status in 200..299 and a JSON body is not raised as a failed
\* request.
C11_EverySuccessStatusReturns ==
    (/\ pc = "done" /\ call.op \in {"search_genes", "fetch_gene_info", "fetch_protein_info"}
     /\ answer.kind = "response") =>
        LET request_failed == /\ outcome.kind = "raise"
                              /\ "status" \in DOMAIN outcome.exc
                              /\ outcome.exc.status = answer.code
        IN  /\ answer.code \notin 200..299 => request_failed
            /\ (answer.code \in 200..299 /\ answer.body.json) => ~request_failed

\* C12 (as claimed): search_genes returns a SearchResult for every search
\* document that is a JSON object: count is the count field as an integer, 0
\* when the field is absent or is no integer; ids is the id list, empty when
\* absent.
C12_SearchNeverFailsOnObject ==
    (/\ pc = "done" /\ call.op = "search_genes"
     /\ make_request_result(answer).kind = "return"
     /\ IsObject(answer.body.doc)) =>
        LET e == Get(answer.body.doc, "esearchresult", EmptyObject)
        IN  /\ outcome.kind = "return"
            /\ IsObject(e) =>
                  /\ outcome.value.count =
                        (IF "count" \in DOMAIN e /\ CanInt(e.count) THEN IntOf(e.count) ELSE 0)
                  /\ "idlist" \notin DOMAIN e => outcome.value.ids = << >>

\* C13 (as claimed): a SearchResult returned by search_genes has count >= 0
\* and no more ids than count.
C13_IdsWithinCount ==
    (pc = "done" /\ call.op = "search_genes" /\ outcome.kind = "return") =>
        /\ outcome.value.count >= 0
        /\ Len(outcome.value.ids) <= outcome.value.count

\* the record the upstream answered a directly called fetch_gene_info with,
\* when the answer holds a JSON object under the requested id (None otherwise)
FetchedRecord ==
    IF /\ pc = "done" /\ call.op = "fetch_gene_info"
       /\ answer.kind = "response" /\ answer.code = 200 /\ answer.body.json
       /\ IsObject(answer.body.doc)
       /\ IsObject(Get(answer.body.doc, "result", JNull))
       /\ IsObject(Get(answer.body.doc.result, call.arg, JNull))
    THEN answer.body.doc.result[call.arg]
    ELSE None

\* C14 (as claimed): a non-empty comma-joined otheraliases string comes back
\* as its pieces in order, each without surrounding blanks, and a non-empty
\* otheraliases sequence comes back unchanged.
C14_AliasesSplitAndTrimmed ==
    (FetchedRecord # None /\ "otheraliases" \in DOMAIN FetchedRecord) =>
        LET a == FetchedRecord.otheraliases
            pieces == CASE a = Str("TP53, p53, TRP53") -> <<"TP53", "p53", "TRP53">>
                        [] a = Str("TP53,p53") -> <<"TP53", "p53">>
                        [] a = Str("p53 , TRP53") -> <<"p53", "TRP53">>
                        [] OTHER -> << >>
        IN  /\ (IsStr(a) /\ a.s # "") =>
                  (outcome.kind = "return" /\ outcome.value.other_aliases = List(pieces))
            /\ (IsList(a) /\ a.l # << >>) =>
                  (outcome.kind = "return" /\ outcome.value.other_aliases = a)

\* C15 (as claimed): when otheraliases is absent, the empty string or the
\* empty sequence, the GeneInfo returned has other_aliases equal to the empty
\* sequence.
C15_NoAliasesIsEmptySequence ==
    (/\ FetchedRecord # None /\ outcome.kind = "return"
     /\ \/ "otheraliases" \notin DOMAIN FetchedRecord
        \/ FetchedRecord.otheraliases \in {Str(""), List(<< >>)}) =>
        outcome.value.other_aliases = List(<< >>)

\* C16: fetch_gene_info resolves the organism of a record as the
\* scientificname of an organism object ("Unknown" when the object has none),
\* as the organism string itself, and as the string form of any other value;
\* and it returns whenever the organism resolves to a string.
C16_OrganismResolution ==
    (FetchedRecord # None /\ "organism" \in DOMAIN FetchedRecord) =>
        LET o == FetchedRecord.organism
        IN  /\ outcome.kind = "return" =>
                /\ (IsObject(o) /\ "scientificname" \in DOMAIN o) =>
                      outcome.value.organism = o.scientificname.s
                /\ (IsObject(o) /\ "scientificname" \notin DOMAIN o) =>
                      outcome.value.organism = "Unknown"
                /\ IsStr(o) => outcome.value.organism = o.s
                /\ o = Num(9606) => outcome.value.organism = "9606"
                /\ o = JNull => outcome.value.organism = "None"
                /\ o = List(<< >>) => outcome.value.organism = "[]"
            /\ (/\ IsStr(Get(FetchedRecord, "name", JNull))
                /\ "otheraliases" \notin DOMAIN FetchedRecord
                /\ (IsObject(o) /\ "scientificname" \in DOMAIN o) => IsStr(o.scientificname))
                  => outcome.kind = "return"

\* an organism object without scientificname was resolved to "Unknown"
C16_Witness ==
    /\ FetchedRecord # None /\ "organism" \in DOMAIN FetchedRecord
    /\ FetchedRecord.organism = EmptyObject
    /\ outcome.kind = "return" /\ outcome.value.organism = "Unknown"

\* C17 (as claimed): when the organism field is absent, null, a number, a
\* list or an object without a usable scientificname, fetch_gene_info returns
\* organism "Unknown".
C17_MalformedOrganismIsUnknown ==
    (/\ FetchedRecord # None
     /\ IsStr(Get(FetchedRecord, "name", JNull))
     /\ "otheraliases" \notin DOMAIN FetchedRecord
     /\ Get(FetchedRecord, "organism", JNull) \in
           {JNull, Num(9606), List(<< >>), EmptyObject, [scientificname |-> JNull]}) =>
        (outcome.kind = "return" /\ outcome.value.organism = "Unknown")

\* C18 (as claimed): the search term of search_by_gene_symbol is the symbol
\* with a gene-symbol filter and, when an organism is given, an organism
\* filter joined with AND; the organism "human", in any letter case, is sent
\* as "Homo sapiens".
C18_HumanIsHomoSapiens ==
    (call # None /\ call.op = "search_by_gene_symbol" /\ req.endpoint = "esearch") =>
        LET field == IF Impl(call.inst) = "api" THEN "[gene symbol]" ELSE "[gene]"
        IN  /\ call.organism = None => req.key = call.arg \o field
            /\ call.organism \in {Str("human"), Str("Human")} =>
                  req.key = call.arg \o field \o " AND Homo sapiens[organism]"

\* C18 (amended): as C18, except that only the bridge of api/app.py sends
\* "human" as "Homo sapiens"; the bridge of bridge.py sends the organism as it
\* was given.
C18_QueryTerm ==
    (call # None /\ call.op = "search_by_gene_symbol" /\ req.endpoint = "esearch") =>
        LET api == Impl(call.inst) = "api"
            field == IF api THEN "[gene symbol]" ELSE "[gene]"
        IN  /\ call.organism = None => req.key = call.arg \o field
            /\ (call.organism \in {Str("human"), Str("Human")} /\ api) =>
                  req.key = call.arg \o field \o " AND Homo sapiens[organism]"
            /\ (call.organism # None /\ ~api) =>
                  req.key = call.arg \o field \o " AND " \o call.organism.s \o "[organism]"

\* the bridge of api/app.py searched for BRCA1 in "Human" with the organism
\* filter "Homo sapiens"
C18_Witness ==
    /\ call # None /\ call.op = "search_by_gene_symbol" /\ call.organism = Str("Human")
    /\ n.search = 1 /\ search_res # None
    /\ req.endpoint = "esearch"
    /\ req.key = "BRCA1[gene symbol] AND Homo sapiens[organism]"

\* C19 (as claimed): no input line terminates the loop of run(): a malformed
\* line is skipped, and the loop ends only at end of input.
C19_LoopEndsOnlyAtEndOfInput ==
    server \in {"off", "reading", "calling", "ended"}

\* C20: the MCP server writes exactly one response line for every request
\* object it handles, and a response carries either a result or an error,
\* never both and never neither.
C20_OneResponsePerRequest ==
    /\ Len(responses) <= 1
    /\ \A i \in DOMAIN responses :
          ("result" \in DOMAIN responses[i]) # ("error" \in DOMAIN responses[i])
    /\ (server \in {"reading", "ended"} /\ request # None) => Len(responses) = 1
    /\ server = "calling" => (request # None /\ responses = << >>)

\* a tools/call request whose bridge call timed out was answered with one
\* error response
C20_Witness ==
    /\ server = "reading" /\ request # None
    /\ Get(request, "method", JNull) = Str("tools/call")
    /\ Len(responses) = 1
    /\ DOMAIN responses[1] = {"error", "id", "jsonrpc"}
    /\ responses[1].error.message = "timed out"

\* a tools/call request that names none of the four tools, or whose required
\* argument is missing or empty
BadToolCall(r) ==
    /\ Get(r, "method", JNull) = Str("tools/call")
    /\ IsObject(Get(r, "params", EmptyObject))
    /\ LET params == Get(r, "params", EmptyObject)
           name == Get(params, "name", JNull)
           arguments == Get(params, "arguments", EmptyObject)
           required == CASE name = Str("search_genes") -> "query"
                         [] name = Str("fetch_gene_info") -> "gene_id"
                         [] name = Str("fetch_protein_info") -> "protein_id"
                         [] OTHER -> "symbol"
       IN  \/ ~(IsStr(name) /\ name.s \in ToolNames)
           \/ /\ IsObject(arguments)
              /\ Get(arguments, required, Str("")) = Str("")

\* C21: a tools/call request whose tool name is not one of the four tools, or
\* whose required argument is missing or empty, never reaches a bridge
\* operation, and the step that handles it writes one error response, makes
\* no upstream request and leaves last_request_time as it was.
C21_BadToolCallRejected ==
    [][/\ (server' = "calling") => ~BadToolCall(request')
       /\ (server = "reading" /\ request' # None /\ BadToolCall(request')
              /\ <<request', responses'>> # <<request, responses>>) =>
             /\ server' = "reading"
             /\ Len(responses') = 1
             /\ DOMAIN responses'[1] = {"error", "id", "jsonrpc"}
             /\ last_request_time' = last_request_time
             /\ get_at' = get_at
             /\ pc' = "idle" /\ call' = None /\ req' = None /\ n' = NoCounts]_vars

\* after an earlier tool call went upstream, a fetch_gene_info call with an
\* empty gene_id was answered with an error and the timestamp of the earlier
\* call is still in place
C21_Witness ==
    /\ server = "reading" /\ request # None
    /\ Get(request, "params", JNull) = [arguments |-> [gene_id |-> Str("")],
                                        name |-> Str("fetch_gene_info")]
    /\ Len(responses) = 1
    /\ responses[1].error.message = "gene_id is required"
    /\ last_request_time["b1"] > 0 /\ last_request_time["b1"] = get_at["b1"]
    /\ pc = "idle" /\ call = None

\* C22 (as claimed): in web_app.py, POST /api/search/genes with a blank query
\* and POST /api/search/symbol with a blank symbol are answered with status
\* 400 without a call of the bridge, and status 500 is returned only when a
\* bridge operation failed.
C22_BlankIs400 ==
    (/\ pc = "done" /\ program = "pkg"
     /\ call.op \in {"search_genes_api", "search_by_symbol_api"}) =>
        /\ strip(call.arg) = "" =>
              /\ outcome.status = 400
              /\ n.make_request = 0 /\ n.rate_limit = 0
              /\ last_request_time[call.inst] = call.t0
        /\ outcome.status = 500 => n.make_request > 0

C24_InvalidConfigRejected ==
    (call # None /\ n.rate_limit > 0) =>
        (config[call.inst].timeout > 0 /\ request_delay[call.inst] >= 0)

\* C25: every GET of _make_request carries the caller's parameters, retmode
\* json and the tool identifier, and nothing else but the credentials: the
\* email when the Config has one, with that value, and the api_key when the
\* Config has one, with that value (None and the empty string count as having
\* none; the bridge of api/app.py has no credentials).
C25_ParamsOfEveryRequest ==
    [][pc = "get" =>
          LET cfg == config[call.inst]
              pkg == Impl(call.inst) = "pkg"
              has_email == pkg /\ cfg.email \notin {None, Str("")}
              has_key == pkg /\ cfg.api_key \notin {None, Str("")}
              own == IF req.endpoint = "esearch" THEN {"db", "term", "retmax"}
                     ELSE {"db", "id"}
          IN  /\ sent' # None
              /\ DOMAIN sent' = own \cup {"retmode", "tool"}
                                  \cup (IF has_email THEN {"email"} ELSE {})
                                  \cup (IF has_key THEN {"api_key"} ELSE {})
              /\ sent'["db"] = Str(req.db)
              /\ req.endpoint = "esearch" =>
                    (sent'["term"] = Str(req.key) /\ sent'["retmax"] = Num(req.retmax))
              /\ req.endpoint = "esummary" => sent'["id"] = Str(req.key)
              /\ sent'["retmode"] = Str("json")
              /\ sent'["tool"] = Str("ncbi_gene_mcp_client")
              /\ has_email => sent'["email"] = cfg.email
              /\ has_key => sent'["api_key"] = cfg.api_key]_vars

\* a bridge configured with an email and no api_key sent a search with the
\* email and without an api_key
C25_Witness ==
    /\ sent # None /\ call # None /\ call.op = "search_genes"
    /\ config[call.inst].email = Str("me@example.org")
    /\ config[call.inst].api_key = None
    /\ "email" \in DOMAIN sent /\ sent["email"] = Str("me@example.org")
    /\ "api_key" \notin DOMAIN sent
    /\ sent["term"] = Str("BRCA1[gene]")

\* C26: an operation of NCBIGeneMCPClientBridge calls the same-named
\* operation of its NCBIBridge once, with the arguments it was given, and
\* hands its result or its error to the caller as it is; the Config of the
\* wrapped bridge holds the email and api_key given to the wrapper's
\* constructor.
C26_WrapperDelegates ==
    [][/\ wrapper' # None =>
             /\ config'["b1"].email = wrapper'.email
             /\ config'["b1"].api_key = wrapper'.api_key
       /\ (wcall = None /\ wcall' # None) =>
             /\ call' # None /\ call'.inst = "b1"
             /\ call'.op = wcall'.op
             /\ call'.arg = wcall'.arg
             /\ call'.organism = wcall'.organism
             /\ wcall'.op = "search_genes" =>
                   (req'.key = wcall'.arg /\ req'.retmax = wcall'.max_results)
             /\ n'.make_request = 1 /\ pc' = "rate_limit"
       /\ (wcall # None /\ wcall' # None) => (wcall' = wcall /\ call' = call)
       /\ wcall' # None => pc' # "idle"
       /\ (pc = "done" /\ pc' = "returned") => outcome' = outcome
       /\ (pc = "returned" /\ pc' # "returned") => (pc' = "idle" /\ wcall' = None)]_vars

\* the wrapper, built with an email and an api_key, returned the result of a
\* search it was called for with max_results 1
C26_Witness ==
    /\ pc = "returned" /\ wcall # None
    /\ wcall.op = "search_genes" /\ wcall.max_results = 1
    /\ call.op = "search_genes" /\ req.retmax = 1
    /\ outcome.kind = "return"
    /\ wrapper = [api_key |-> Str("key"), email |-> Str("me@example.org")]
    /\ config["b1"].api_key = Str("key")

\* whether sequence a is a subsequence of sequence b: the elements of a
\* occur in b in the same order, each at a place of its own
RECURSIVE IsSubseq(_, _)
IsSubseq(a, b) ==
    IF a = << >> THEN TRUE
    ELSE IF b = << >> THEN FALSE
    ELSE IF Head(a) = Head(b) THEN IsSubseq(Tail(a), Tail(b))
    ELSE IsSubseq(a, Tail(b))

\* the gene_ids of a list of entities, in order
RECURSIVE GeneIdsOf(_)
GeneIdsOf(l) == IF l = << >> THEN << >> ELSE <<Head(l).gene_id>> \o GeneIdsOf(Tail(l))

\* C27: the gene_ids of the list search_by_gene_symbol returns form a
\* subsequence of the ids its search returned: same relative order, and no
\* more entities of an id than the id has occurrences.
C27_UpstreamOrder ==
    (pc = "done" /\ call.op = "search_by_gene_symbol" /\ outcome.kind = "return") =>
        /\ IsSubseq(GeneIdsOf(outcome.value), search_res.ids)
        /\ Len(outcome.value) <= Len(search_res.ids)

\* the search listed 675 before 672 and both were fetched: the result holds
\* the two entities in that order
C27_Witness ==
    /\ pc = "done" /\ call.op = "search_by_gene_symbol" /\ outcome.kind = "return"
    /\ search_res.ids = <<"675", "672">>
    /\ Len(outcome.value) = 2
    /\ outcome.value[1].gene_id = "675" /\ outcome.value[2].gene_id = "672"

\* C28: the response to a request carries the id of that request, 0 when the
\* request has none, whatever the ids of the requests before it, and it is
\* written before the next line is read.
C28_ResponseCarriesRequestId ==
    /\ (server \in {"reading", "ended"} /\ request # None) =>
          /\ Len(responses) = 1
          /\ responses[1].id = (IF "id" \in DOMAIN request THEN request.id ELSE Num(0))
    /\ (server = "calling") =>
          /\ responses = << >>
          /\ request_id = (IF "id" \in DOMAIN request THEN request.id ELSE Num(0))

\* after a tool call that went upstream, a tools/call request without an id
\* was answered with the id 0
C28_Witness ==
    /\ server = "reading" /\ request # None
    /\ "id" \notin DOMAIN request
    /\ Get(request, "method", JNull) = Str("tools/call")
    /\ Len(responses) = 1 /\ responses[1].id = Num(0)
    /\ "result" \in DOMAIN responses[1]
    /\ last_request_time["b1"] > 0 /\ get_at["b1"] > ClockStart

\* C29 (as claimed): when the bridge call of a tools/call request raises, the
\* response written is an error object and holds no result, whatever the
\* message of the exception, the empty message included.
C29_FailureIsAnError ==
    [][(server = "calling" /\ pc = "done" /\ outcome.kind = "raise") =>
          /\ Len(responses') = 1
          /\ "error" \in DOMAIN responses'[1]
          /\ "result" \notin DOMAIN responses'[1]]_vars

\* C30: with several web requests in flight on the one client of a web
\* front-end, at most one handler is between the check of last_request_time
\* and its update, and no upstream request of the client starts less than
\* request_delay after the one before it.
C30_WebRequestsSerialized ==
    /\ Cardinality({ t \in WebRequests : tasks[t].pc \in {"sleep", "stamp"} }) <= 1
    /\ Cardinality(Running) <= 1
    /\ (gaps # None /\ gaps.own >= 0) => gaps.own >= request_delay[gaps.inst]

\* two requests are in flight: the handler of one, which makes a single
\* upstream call, has started its GET exactly request_delay after the GET of
\* an earlier request, having slept for it; the other request waits
C30_Witness ==
    \E t \in WebRequests, u \in WebRequests :
        /\ t # u
        /\ tasks[t].pc = "got" /\ tasks[t].op = "get_gene_info_api"
        /\ tasks[t].wake = now
        /\ tasks[u].pc = "pending"
        /\ gaps # None /\ gaps.own = request_delay[gaps.inst] /\ gaps.own > 0

====
